---- MODULE Spec2Model ----
(***************************************************************************)
(* Webhook relay (src/main.py): a Flask application that records incoming  *)
(* JSON payloads in one newline-delimited log file per webhook name,       *)
(* prunes entries older than seven days, relays each payload to a chat     *)
(* through one lazily started client session, and exposes token-gated      *)
(* routes to list or clear a log.                                          *)
(*                                                                         *)
(* Time is counted in clock units of 1/DayUnits of a day.  A request is    *)
(* served by one of the request threads; every handler is cut into steps   *)
(* at the points where it touches shared state (the log file, the client   *)
(* globals, the locks), so that concurrent requests interleave as the      *)
(* threads of the server do.                                               *)
(***************************************************************************)
EXTENDS Integers, Sequences, FiniteSets, TLC

\* ------------------------------------------------------------------ bounds
\* clock units per day (2: the clock ticks every 12 hours)
DayUnits == 2
\* how many times the clock advances during a behaviour
MaxTicks == 2
\* how many requests are served during a behaviour
MaxReq == 2
\* how many fields an entry handed to the formatter has at most
MaxFields == 3
\* how many requests are served, one after the other, by the serial log
\* specification
MaxLogReq == 4

\* ------------------------------------------------------- program constants
\* WEBHOOKS (src/main.py:42-45)
WEBHOOKS == {"webhook1", "webhook2"}
\* DOWNLOAD_SECRET (src/main.py:47)
DOWNLOAD_SECRET == "my_download_secret_9876"
\* the retention comparison `(now - ts).days <= 7` (src/main.py:123)
RETENTION_DAYS == 7

\* the main thread (0) and the request threads of the HTTP server
MainThread == 0
Threads == {1, 2}
Procs == {MainThread} \cup Threads

\* the clock starts RETENTION_DAYS + 1 days after the model's epoch 0
T0 == (RETENTION_DAYS + 1) * DayUnits
MaxNow == T0 + MaxTicks

\* ------------------------------------------------------------- JSON values
\* The value of an entry's "timestamp" field, by the classes the code tells
\* apart:
\*   absent     the key is missing
\*   null       JSON null
\*   empty      the empty string
\*   zero       another falsy non-string (0, false, [], {})
\*   text       a string no parser accepts
\*   truthy     a truthy non-string (a number, true, a non-empty array/object)
\*   iso_naive  ISO-8601 without offset, local time `local`
\*   iso_tz     ISO-8601 with an explicit offset `off` (in clock units)
\*   iso_z      ISO-8601 with the suffix Z (UTC)
\*   loose      "%Y-%m-%dT%H:%M:%S" with unpadded fields: only strptime
\*              accepts it
Ts(k, local, off) == [k |-> k, local |-> local, off |-> off]
TsAbsent == Ts("absent", 0, 0)
TsNull == Ts("null", 0, 0)
TsEmpty == Ts("empty", 0, 0)
TsZero == Ts("zero", 0, 0)
TsText == Ts("text", 0, 0)
TsTruthy == Ts("truthy", 0, 0)
\* datetime.now(timezone.utc).isoformat() (src/main.py:212): "...+00:00"
NowIso(t) == Ts("iso_tz", t, 0)

\* a payload stands for the fields of an object other than "timestamp";
\* "surrogate" is an object holding a string with a lone surrogate (the JSON
\* escape \ud800), which json.loads accepts and the utf-8 file cannot encode
Payloads == {"p1", "p2", "surrogate"}

\* a parsed JSON value: an object (payload and timestamp) or a non-object
Obj(p, ts) == [kind |-> "object", payload |-> p, ts |-> ts]
NonObj == [kind |-> "nonobj", payload |-> "none", ts |-> TsAbsent]
NoData == [kind |-> "none", payload |-> "none", ts |-> TsAbsent]

\* a line of a log file: the text of a JSON object, the text of another JSON
\* value, text that is not JSON, or a blank line
JsonLine(e) == [kind |-> "json", payload |-> e.payload, ts |-> e.ts]
NonObjLine == [kind |-> "json_nonobj", payload |-> "none", ts |-> TsAbsent]
GarbageLine == [kind |-> "garbage", payload |-> "none", ts |-> TsAbsent]
BlankLine == [kind |-> "blank", payload |-> "none", ts |-> TsAbsent]

\* json.dumps(value, ensure_ascii=False) + "\n" (src/main.py:128, 216)
Dumps(v) == IF v.kind = "object" THEN JsonLine(v) ELSE NonObjLine

\* whether the utf-8 text file accepts the line: a lone surrogate raises
\* UnicodeEncodeError in f.write (src/main.py:216)
Encodable(v) == v.payload # "surrogate"

\* json.loads(line) (src/main.py:105, 241): the value, or JSONDecodeError
LoadsOk(l) == l.kind \in {"json", "json_nonobj"}
Loads(l) == IF l.kind = "json" THEN Obj(l.payload, l.ts) ELSE NonObj

\* the log file of a webhook that does not exist yet
Absent == [exists |-> FALSE, lines |-> <<>>]
File(ls) == [exists |-> TRUE, lines |-> ls]


\* ------------------------------------------------------------------- state
VARIABLES
    now,            \* the wall clock, datetime.now(timezone.utc)
    py311,          \* whether datetime.fromisoformat accepts the suffix Z
    quota,          \* how many requests the clients send in all
    phase,          \* "boot" (main before app.run), "serving", "exited"
    file,           \* webhook name -> its log file {name}_logs.json
    ingested,       \* webhook name -> the entries appended since its last clear
    client,         \* telegram_client: "stopped", "starting", "started"
    client_started, \* _client_started
    TG_LOOP,        \* _TG_LOOP: "null" or "loop"
    client_lock,    \* _client_lock: the thread holding it, or -1
    loop_run_lock,  \* _loop_run_lock: the thread holding it, or -1
    loop_runner,    \* the thread inside run_until_complete, or -1
    nreq,           \* requests received so far
    pc,             \* thread -> its position
    req,            \* thread -> the request it serves
    data,           \* thread -> `data` of the ingest handler
    pnow,           \* thread -> the time purge_old_entries ran (its `now`)
    new_logs,       \* thread -> `new_logs` of purge_old_entries
    fut,            \* thread -> its send: "none", "pending", "ok", "failed"
    resp,           \* thread -> the response: status, body, exception
    hist,           \* thread -> the steps its request has completed
    overlap,        \* thread -> whether its request ran beside another one
    message         \* thread -> `message` of send_telegram_message

shared == <<now, py311, quota, phase, file, ingested, client, client_started, TG_LOOP,
            client_lock, loop_run_lock, loop_runner, nreq>>
locals == <<pc, req, data, pnow, new_logs, fut, resp, hist, overlap, message>>
vars == <<shared, locals>>

NoLock == -1

\* ----------------------------------------------------- timestamp handling
\* `if ts_str:` (src/main.py:110)
Truthy(ts) == ts.k \notin {"absent", "null", "empty", "zero"}

\* datetime.fromisoformat(ts_str) (src/main.py:112): "ok", "ValueError" or
\* "TypeError" (the argument is not a string)
FromIsoFormat(ts, v311) ==
    CASE ts.k = "truthy" -> "TypeError"
      [] ts.k \in {"iso_naive", "iso_tz"} -> "ok"
      [] ts.k = "iso_z" -> IF v311 THEN "ok" ELSE "ValueError"
      [] OTHER -> "ValueError"

\* datetime.strptime(ts_str, "%Y-%m-%dT%H:%M:%S") (src/main.py:117)
Strptime(ts) == IF ts.k \in {"iso_naive", "loose"} THEN "ok" ELSE "ValueError"

\* the instant, in clock units since the epoch, of a parsed timestamp: a
\* naive value is taken as UTC (src/main.py:113-114, 117), an aware one is
\* its local time less its offset
Instant(ts) == IF ts.k = "iso_tz" THEN ts.local - ts.off ELSE ts.local

\* the effective timestamp `ts` of an entry (src/main.py:109-121), or
\* "TypeError" when fromisoformat raises it
EffectiveTs(ts, tnow, v311) ==
    IF ~Truthy(ts) THEN [st |-> "ok", at |-> tnow]
    ELSE LET r == FromIsoFormat(ts, v311) IN
         CASE r = "ok" -> [st |-> "ok", at |-> Instant(ts)]
           [] r = "TypeError" -> [st |-> "TypeError", at |-> tnow]
           [] OTHER -> IF Strptime(ts) = "ok"
                       THEN [st |-> "ok", at |-> Instant(ts)]
                       ELSE [st |-> "ok", at |-> tnow]

\* timedelta.days: whole days, rounded down
Days(d) == d \div DayUnits

\* mutant: nothing is ever dropped
KeepAlways(ts, tnow, v311) == TRUE

\* mutant: the difference is compared exactly, not in whole days
KeepExact(ts, tnow, v311) ==
    tnow - EffectiveTs(ts, tnow, v311).at <= RETENTION_DAYS * DayUnits

\* `(now - ts).days <= 7` (src/main.py:123)
Keep(ts, tnow, v311) == Days(tnow - EffectiveTs(ts, tnow, v311).at) <= RETENTION_DAYS

\* whether the loop body of purge_old_entries raises on this line: a JSON
\* value that is no object has no .get (AttributeError, src/main.py:109), a
\* truthy non-string timestamp makes fromisoformat raise TypeError, which
\* `except ValueError` does not catch (src/main.py:112-115)
LineRaises(l, tnow, v311) ==
    \/ l.kind = "json_nonobj"
    \/ l.kind = "json" /\ EffectiveTs(l.ts, tnow, v311).st = "TypeError"

\* the exception of the first raising line
ScanError(ls, tnow, v311) ==
    LET bad == {i \in 1..Len(ls) : LineRaises(ls[i], tnow, v311)}
        first == CHOOSE i \in bad : \A j \in bad : i <= j
    IN IF ls[first].kind = "json_nonobj" THEN "AttributeError" ELSE "TypeError"

ScanRaises(ls, tnow, v311) == \E i \in 1..Len(ls) : LineRaises(ls[i], tnow, v311)

RECURSIVE MapLoads(_)
MapLoads(ls) == IF ls = <<>> THEN <<>> ELSE <<Loads(Head(ls))>> \o MapLoads(Tail(ls))

RECURSIVE MapDumps(_)
MapDumps(es) == IF es = <<>> THEN <<>> ELSE <<Dumps(Head(es))>> \o MapDumps(Tail(es))

\* the read loop of purge_old_entries (src/main.py:99-124): blank lines and
\* lines that are not JSON are skipped, the entries kept are collected
PurgeKeepLine(l, tnow, v311) == l.kind = "json" /\ Keep(l.ts, tnow, v311)
ScanKept(ls, tnow, v311) ==
    MapLoads(SelectSeq(ls, LAMBDA l : PurgeKeepLine(l, tnow, v311)))

\* the read loop of the list handler (src/main.py:235-243)
ReadLogs(ls) == MapLoads(SelectSeq(ls, LoadsOk))


\* ------------------------------------------------------ message formatter
\* The formatter works on the fields of an entry in key order.  A JSON value
\* is kept with its type t, its Python string form s (str(value)), its JSON
\* text j (json.dumps(value)) and, for the value of a "timestamp" field, its
\* class ts; the times of the formatter are counted in half hours.
HalfHoursPerDay == 48
\* IST = timezone(timedelta(hours=5, minutes=30)) (src/main.py:58), in half
\* hours
IST == 11

JNull == [t |-> "null", s |-> "None", j |-> "null", ts |-> TsNull]
\* a string no timestamp parser accepts (possibly empty)
JText(x) == [t |-> "string", s |-> x, j |-> x, ts |-> IF x = "" THEN TsEmpty ELSE TsText]
\* a string written in one of the timestamp formats
JTime(ts) == [t |-> "string", s |-> "", j |-> "", ts |-> ts]
JNumber(n) ==
    [t |-> "number", s |-> ToString(n), j |-> ToString(n),
     ts |-> IF n = 0 THEN TsZero ELSE TsTruthy]
JFalse == [t |-> "bool", s |-> "False", j |-> "false", ts |-> TsZero]
JEmptyArray == [t |-> "array", s |-> "[]", j |-> "[]", ts |-> TsZero]
JArray == [t |-> "array", s |-> "['a']", j |-> "[\"a\"]", ts |-> TsTruthy]
JObject == [t |-> "object", s |-> "{'a': 1}", j |-> "{\"a\": 1}", ts |-> TsTruthy]

\* a field of an entry
Item(k, v) == [key |-> k, value |-> v]

\* a rendered value: plain text, a timestamp string as it was written, or a
\* time of day (half hours since midnight) with its date (days since the
\* epoch), as strftime("%H:%M:%S %d/%m/%Y") prints them (src/main.py:154)
Shown(x) == [as |-> "text", text |-> x, ts |-> TsAbsent, day |-> 0, tod |-> 0]
AsWritten(ts) == [as |-> "string", text |-> "", ts |-> ts, day |-> 0, tod |-> 0]
ClockTime(x) ==
    [as |-> "clock", text |-> "", ts |-> TsAbsent,
     day |-> x \div HalfHoursPerDay, tod |-> x % HalfHoursPerDay]

\* `if display_value:` (src/main.py:179), negated
IsEmpty(d) == d.as = "text" /\ d.text = ""

\* str(value) (src/main.py:149, 177); a string is returned as it is
\* (src/main.py:147)
PyStr(v) ==
    IF v.t = "string" /\ v.ts.k \notin {"text", "empty"} THEN AsWritten(v.ts) ELSE Shown(v.s)

\* datetime.strptime(value, "%Y-%m-%d %H:%M:%S") (src/main.py:140-142):
\* "loose_sp" is that format with unpadded fields, which fromisoformat
\* rejects
StrptimeSpace(ts) == IF ts.k = "loose_sp" THEN "ok" ELSE "ValueError"

\* dt.astimezone(IST) (src/main.py:154): the local time of the instant x
AsTimezoneIst(x) == x + IST

\* _format_timestamp_ist (src/main.py:131-154): a string is parsed by
\* fromisoformat, else by the two strptime formats, a naive result is taken
\* as UTC, and the instant is printed in IST; a string no parser accepts is
\* returned as it is, any other value by str
FormatTimestampIst(v, v311) ==
    IF v.t # "string" THEN Shown(v.s)
    ELSE IF \/ FromIsoFormat(v.ts, v311) = "ok"
            \/ Strptime(v.ts) = "ok"
            \/ StrptimeSpace(v.ts) = "ok"
         THEN ClockTime(AsTimezoneIst(Instant(v.ts)))
         ELSE PyStr(v)

\* excluded_keys (src/main.py:160)
ExcludedKeys == {"webhook_url", "alert_name", "scan_name", "scan_url"}

\* key.replace("_", " ").title() (src/main.py:170), for the keys of the model
TitleLabel(key) ==
    CASE key = "action" -> "Action"
      [] key = "stop_loss" -> "Stop Loss"
      [] key = "timestamp" -> "Timestamp"
      [] key = "webhook_url" -> "Webhook Url"
      [] key = "alert_name" -> "Alert Name"
      [] key = "scan_name" -> "Scan Name"
      [] key = "scan_url" -> "Scan Url"
      [] OTHER -> key

\* a line of the message: the header lines, and f"{label}: {display_value}"
\* (src/main.py:161, 180)
HeaderLine(x) == [label |-> x, sep |-> "", value |-> Shown("")]
FieldLine(label, d) == [label |-> label, sep |-> ": ", value |-> d]
Header == <<HeaderLine("PriceAction Alert (Buy or Sell detected)"), HeaderLine("")>>

\* the label and the rendered value of a field (src/main.py:170-177)
FieldLabel(key) == IF key = "timestamp" THEN "Timestamp (IST)" ELSE TitleLabel(key)
DisplayValue(key, value, v311) ==
    IF key = "timestamp" THEN FormatTimestampIst(value, v311)
    ELSE IF value.t \in {"object", "array"} THEN Shown(value.j)
    ELSE PyStr(value)

\* the loop of _build_curated_message (src/main.py:163-180)
RECURSIVE CuratedLines(_, _)
CuratedLines(items, v311) ==
    IF items = <<>> THEN <<>>
    ELSE LET key == Head(items).key
             value == Head(items).value
             rest == CuratedLines(Tail(items), v311)
         IN IF key \in ExcludedKeys THEN rest
            ELSE IF value.t = "null" THEN rest
            ELSE LET d == DisplayValue(key, value, v311)
                 IN IF IsEmpty(d) THEN rest
                    ELSE <<FieldLine(FieldLabel(key), d)>> \o rest

\* _build_curated_message (src/main.py:157-182): the lines that
\* "\n".join(lines) puts together
BuildCuratedMessage(items, v311) == Header \o CuratedLines(items, v311)

\* `message` of send_telegram_message (src/main.py:190), with the entry it
\* was built from
Message(items, v311) == [of |-> items, lines |-> BuildCuratedMessage(items, v311)]
NoMessage == [of |-> <<>>, lines |-> <<>>]

\* the fields of `data` (src/main.py:210-212): those of the payload, and the
\* "timestamp" field, which is shown last, where the handler adds it; its
\* times are converted from clock units to half hours
PayloadItems(p) ==
    CASE p = "p1" -> <<Item("action", JText("buy"))>>
      [] p = "p2" -> <<Item("action", JText("sell")), Item("webhook_url", JText("x"))>>
      [] p = "surrogate" -> <<Item("action", JText("\\ud800"))>>
      [] OTHER -> <<>>
TimestampValue(ts) ==
    CASE ts.k = "null" -> JNull
      [] ts.k = "empty" -> JText("")
      [] ts.k = "zero" -> JNumber(0)
      [] ts.k = "text" -> JText("soon")
      [] ts.k = "truthy" -> JNumber(5)
      [] OTHER -> JTime(Ts(ts.k, ts.local * (HalfHoursPerDay \div DayUnits),
                           ts.off * (HalfHoursPerDay \div DayUnits)))
Items(d) ==
    PayloadItems(d.payload)
    \o (IF d.ts.k = "absent" THEN <<>> ELSE <<Item("timestamp", TimestampValue(d.ts))>>)


\* ---------------------------------------------------------------- requests
\* the times a client writes into a "timestamp" field: 8 days before the
\* clock's start, one clock unit later, and a day after the clock's end
OldTime == T0 - (RETENTION_DAYS + 1) * DayUnits
EdgeTime == OldTime + 1
FutureTime == MaxNow + DayUnits

ClientTs ==
    { TsAbsent, TsNull, TsEmpty, TsText, TsTruthy,
      Ts("iso_naive", OldTime, 0), Ts("iso_naive", EdgeTime, 0),
      Ts("iso_tz", EdgeTime, 1), Ts("iso_z", OldTime, 0),
      Ts("loose", OldTime, 0), Ts("iso_naive", FutureTime, 0) }

\* the body of an ingest request: a JSON object; a falsy JSON value (which
\* `or {}` replaces by an empty object); a non-object containing "timestamp"
\* (a string or an array); another truthy non-object; or text that is not
\* JSON
Body(k, p, ts) == [kind |-> k, payload |-> p, ts |-> ts]
NoBody == Body("none", "none", TsAbsent)

\* the token of the query string: the secret, another string, or none
Tokens == {DOWNLOAD_SECRET, "wrong", "missing"}

\* a request: its route, the webhook name of its path, the body of an
\* ingest, and its number in the order of arrival
Request(op, n, b, no) == [op |-> op, name |-> n, body |-> b, no |-> no]
NoRequest == Request("none", "webhook1", NoBody, 0)

Response(status, exc, body) == [status |-> status, exc |-> exc, body |-> body]
NoResponse == Response(0, "", <<>>)

\* a log file left by an earlier run or edited by hand: absent, empty, or
\* a valid entry without timestamp followed by a line of garbage and a
\* blank line
LegacyLines == <<JsonLine(Obj("p2", TsAbsent)), GarbageLine, BlankLine>>
InitFiles == {Absent, File(<<>>), File(LegacyLines)}

\* the state once the module is imported (src/main.py:35-58, 261-280): the
\* client is not started, no request has arrived.  V: whether fromisoformat
\* accepts the suffix Z; P: whether the module is run directly ("boot": main
\* starts the client before app.run) or imported by a WSGI server
\* ("serving"); F: the log files found in the working directory
BootFor(V, P, F, Q) ==
    /\ now = T0
    /\ py311 \in V
    /\ quota = Q
    /\ phase \in P
    /\ file \in F
    /\ ingested = [n \in WEBHOOKS |-> <<>>]
    /\ client = "stopped"
    /\ client_started = FALSE
    /\ TG_LOOP = "null"
    /\ client_lock = NoLock
    /\ loop_run_lock = NoLock
    /\ loop_runner = NoLock
    /\ nreq = 0
    /\ pc = [p \in Procs |-> IF p = MainThread
                             THEN (IF phase = "boot" THEN "ens_check" ELSE "imported")
                             ELSE "idle"]
    /\ req = [p \in Procs |-> NoRequest]
    /\ data = [p \in Procs |-> NoData]
    /\ pnow = [p \in Procs |-> -1]
    /\ new_logs = [p \in Procs |-> <<>>]
    /\ fut = [p \in Procs |-> "none"]
    /\ resp = [p \in Procs |-> NoResponse]
    /\ hist = [p \in Procs |-> <<>>]
    /\ overlap = [p \in Procs |-> FALSE]
    /\ message = [p \in Procs |-> NoMessage]

\* the same, for clients that send MaxReq requests
Boot(V, P, F) == BootFor(V, P, F, MaxReq)

Init == Boot({TRUE}, {"boot", "serving"}, [WEBHOOKS -> {Absent, File(LegacyLines)}])

\* ------------------------------------------------------------ step helpers
\* the thread moves to position `to`
Goto(t, to) == pc' = [pc EXCEPT ![t] = to]

\* the handler returns (or Flask turns its exception into a 500 response)
Respond(t, status, exc, body) ==
    /\ pc' = [pc EXCEPT ![t] = "done"]
    /\ resp' = [resp EXCEPT ![t] = Response(status, exc, body)]

\* the request has completed the step `what`
Record(t, what) == hist' = [hist EXCEPT ![t] = Append(@, what)]

\* a thread is free to take a request
Free(t) == pc[t] \in {"idle", "done"}

\* a request arrives at thread t: the locals of its handler are fresh
Arrive(t, r) ==
    /\ phase = "serving"
    /\ Free(t)
    /\ nreq < quota
    /\ nreq' = nreq + 1
    /\ req' = [req EXCEPT ![t] = r]
    /\ pnow' = [pnow EXCEPT ![t] = -1]
    /\ new_logs' = [new_logs EXCEPT ![t] = <<>>]
    /\ fut' = [fut EXCEPT ![t] = "none"]
    /\ overlap' = [p \in Procs |->
                      IF p = t THEN \E u \in Threads \ {t} : ~Free(u)
                      ELSE overlap[p] \/ (p \in Threads /\ ~Free(p))]
    /\ message' = [message EXCEPT ![t] = NoMessage]


\* ------------------------------------------------------------ the log file
\* mutant: the handlers read the loop variable when they run, and so are all
\* bound to the log file of the last webhook name
LateBoundLogfile(n) == "webhook2"

\* the log file the three handlers of /{n} are bound to: each factory is
\* called with Path(f"{webhook_name}_logs.json") and its handler keeps that
\* argument (src/main.py:208, 224, 249, 261-280)
HandlerLogfile(n) == n

\* `logfile_path` of the handler that serves t's request
Logfile(t) == HandlerLogfile(req[t].name)

\* mutant: the token is not compared
AuthorizedAnyone(tok) == TRUE

\* `token != DOWNLOAD_SECRET` (src/main.py:227, 252), negated
Authorized(tok) == tok = DOWNLOAD_SECRET

\* mutant: the timestamp is assigned whether or not the body has one
IngestDataRestamped(b, tnow) ==
    IF b.kind \in {"object", "falsy"}
    THEN Obj(IF b.kind = "object" THEN b.payload ELSE "empty", NowIso(tnow))
    ELSE NonObj

\* `data` after `request.get_json(...) or {}` and the timestamp default
\* (src/main.py:210-212)
IngestData(b, tnow) ==
    CASE b.kind = "object" ->
            Obj(b.payload, IF b.ts.k = "absent" THEN NowIso(tnow) ELSE b.ts)
      [] b.kind = "falsy" -> Obj("empty", NowIso(tnow))
      [] OTHER -> NonObj

\* mutant: the ingest handler delivers before it appends, and never appends
AfterPurgeNoAppend(op) == IF op = "post" THEN "ens_check" ELSE "get_read"

\* where a handler continues after purge_old_entries (src/main.py:214-215,
\* 230-231)
AfterPurge(op) == IF op = "post" THEN "append" ELSE "get_read"

\* mutant: a file that does not exist is not created
ClearedFileIfAny(f) == IF f.exists THEN File(<<>>) ELSE f

\* the file after logfile_path.write_text("") (src/main.py:255)
ClearedFile(f) == File(<<>>)

\* mutant: the entry is written at the head of the file
PrependedFile(f, v) == File(<<Dumps(v)>> \o f.lines)

\* the file after the entry is written in append mode (src/main.py:215-216)
AppendedFile(f, v) == File(f.lines \o <<Dumps(v)>>)

\* mutant: the body is parsed leniently, text that is not JSON gives no value
GetJsonLenient(b) == FALSE

\* whether request.get_json(force=True, silent=False) raises BadRequest
\* (src/main.py:210): the body is not JSON text
GetJsonRejects(b) == b.kind = "invalid"

\* POST /{name}, up to the call of purge_old_entries (src/main.py:209-213):
\* text that is not JSON is rejected by get_json (400); a truthy non-object
\* without "timestamp" raises TypeError at line 211 or 212
PostRequest(t, n, b) ==
    /\ Arrive(t, Request("post", n, b, nreq + 1))
    /\ hist' = [hist EXCEPT ![t] = <<>>]
    /\ IF GetJsonRejects(b)
       THEN /\ Respond(t, 400, "BadRequest", <<>>)
            /\ data' = [data EXCEPT ![t] = NoData]
       ELSE IF b.kind = "nonobj"
       THEN /\ Respond(t, 500, "TypeError", <<>>)
            /\ data' = [data EXCEPT ![t] = NonObj]
       ELSE /\ Goto(t, "purge")
            /\ resp' = [resp EXCEPT ![t] = NoResponse]
            /\ data' = [data EXCEPT ![t] = IngestData(b, now)]
    /\ UNCHANGED <<now, py311, quota, phase, file, ingested,
                   client, client_started, TG_LOOP, client_lock, loop_run_lock, loop_runner>>

\* what the list handler does once the token is accepted: purge_old_entries
\* (src/main.py:230)
FirstOfGet == "purge"

\* GET /{name}/logs, up to the call of purge_old_entries (src/main.py:225-229)
GetRequest(t, n, tok) ==
    /\ Arrive(t, Request("get", n, NoBody, nreq + 1))
    /\ hist' = [hist EXCEPT ![t] = <<>>]
    /\ data' = [data EXCEPT ![t] = NoData]
    /\ IF Authorized(tok)
       THEN /\ Goto(t, FirstOfGet)
            /\ resp' = [resp EXCEPT ![t] = NoResponse]
       ELSE Respond(t, 401, "", <<>>)
    /\ UNCHANGED <<now, py311, quota, phase, file, ingested,
                   client, client_started, TG_LOOP, client_lock, loop_run_lock, loop_runner>>

\* POST /{name}/clearlogs (src/main.py:250-256)
ClearRequest(t, n, tok) ==
    /\ Arrive(t, Request("clear", n, NoBody, nreq + 1))
    /\ data' = [data EXCEPT ![t] = NoData]
    /\ IF Authorized(tok)
       THEN /\ file' = [file EXCEPT ![HandlerLogfile(n)] = ClearedFile(@)]
            /\ ingested' = [ingested EXCEPT ![HandlerLogfile(n)] = <<>>]
            /\ hist' = [hist EXCEPT ![t] = <<"clear">>]
            /\ Respond(t, 200, "", <<>>)
       ELSE /\ hist' = [hist EXCEPT ![t] = <<>>]
            /\ Respond(t, 401, "", <<>>)
            /\ UNCHANGED <<file, ingested>>
    /\ UNCHANGED <<now, py311, quota, phase, client, client_started, TG_LOOP,
                   client_lock, loop_run_lock, loop_runner>>

\* purge_old_entries up to the end of its read loop (src/main.py:93-124):
\* without a file it returns; a line that raises ends the request with 500
\* before anything is written
Purge(t) ==
    /\ pc[t] = "purge"
    /\ LET f == file[Logfile(t)] IN
       IF ~f.exists
       THEN /\ Goto(t, AfterPurge(req[t].op))
            /\ Record(t, "purge")
            /\ UNCHANGED <<new_logs, resp>>
       ELSE IF ScanRaises(f.lines, now, py311)
       THEN /\ Respond(t, 500, ScanError(f.lines, now, py311), <<>>)
            /\ UNCHANGED <<new_logs, hist>>
       ELSE /\ Goto(t, "purge_write")
            /\ new_logs' = [new_logs EXCEPT ![t] = ScanKept(f.lines, now, py311)]
            /\ UNCHANGED <<resp, hist>>
    /\ pnow' = [pnow EXCEPT ![t] = now]
    /\ UNCHANGED <<shared, req, data, fut, overlap, message>>

\* mutant: the rewrite leaves the file as it finds it
UntouchedFile(f, logs) == f

\* the file after it is opened for writing and the kept entries are written
\* (src/main.py:126-128): what it held is gone
RewrittenFile(f, logs) == File(MapDumps(logs))

\* the rewrite of purge_old_entries (src/main.py:126-128)
PurgeWrite(t) ==
    /\ pc[t] = "purge_write"
    /\ file' = [file EXCEPT ![Logfile(t)] = RewrittenFile(@, new_logs[t])]
    /\ Goto(t, AfterPurge(req[t].op))
    /\ Record(t, "purge")
    /\ UNCHANGED <<now, py311, quota, phase, ingested, client, client_started, TG_LOOP,
                   client_lock, loop_run_lock, loop_runner, nreq>>
    /\ UNCHANGED <<req, data, pnow, new_logs, fut, resp, overlap, message>>

\* the append of the ingest handler (src/main.py:215-216): opening in append
\* mode creates the file; a payload the file cannot encode raises
\* UnicodeEncodeError before anything is written
PostAppend(t) ==
    /\ pc[t] = "append"
    /\ LET n == Logfile(t) IN
       IF Encodable(data[t])
       THEN /\ file' = [file EXCEPT ![n] = AppendedFile(@, data[t])]
            /\ ingested' = [ingested EXCEPT ![n] = Append(@, data[t])]
            /\ Goto(t, "ens_check")
            /\ Record(t, "append")
            /\ UNCHANGED resp
       ELSE /\ file' = [file EXCEPT ![n] = File(@.lines)]
            /\ Respond(t, 500, "UnicodeEncodeError", <<>>)
            /\ UNCHANGED <<hist, ingested>>
    /\ UNCHANGED <<now, py311, quota, phase, client, client_started, TG_LOOP,
                   client_lock, loop_run_lock, loop_runner, nreq>>
    /\ UNCHANGED <<req, data, pnow, new_logs, fut, overlap, message>>

\* the rest of the list handler (src/main.py:231-244)
GetRead(t) ==
    /\ pc[t] = "get_read"
    /\ LET f == file[Logfile(t)] IN
       Respond(t, 200, "", IF f.exists THEN ReadLogs(f.lines) ELSE <<>>)
    /\ Record(t, "read")
    /\ UNCHANGED <<shared, req, data, pnow, new_logs, fut, overlap, message>>

\* the clock advances by one unit
Tick ==
    /\ now < MaxNow
    /\ now' = now + 1
    /\ UNCHANGED <<py311, quota, phase, file, ingested, client, client_started, TG_LOOP,
                   client_lock, loop_run_lock, loop_runner, nreq, locals>>


\* ---------------------------------------------------------- the chat client
\* where _ensure_client_started returns to: main goes on to app.run
\* (src/main.py:290-292), send_telegram_message to its assertion
\* (src/main.py:187-188)
EnsureReturn(p) == IF p = MainThread THEN "app_run" ELSE "assert"

\* telegram_client.start() raises out of _ensure_client_started: the `with`
\* block releases the lock; in main the process ends, in a request thread
\* the exception leaves send_telegram_message, whose try block starts only
\* at line 195, and the handler: Flask answers 500
EnsureFails(p, exc) ==
    /\ client_lock' = NoLock
    /\ IF p = MainThread
       THEN /\ phase' = "exited"
            /\ Goto(p, "crashed")
            /\ UNCHANGED resp
       ELSE /\ Respond(p, 500, exc, <<>>)
            /\ UNCHANGED phase

\* `if _client_started: return` (src/main.py:65-66)
EnsCheck(p) ==
    /\ pc[p] = "ens_check"
    /\ Goto(p, IF client_started THEN EnsureReturn(p) ELSE "ens_lock")
    /\ UNCHANGED <<shared, req, data, pnow, new_logs, fut, resp, hist, overlap, message>>

\* whether `with _client_lock:` may be entered (src/main.py:68)
LockFree(l) == l = NoLock

\* `with _client_lock:` (src/main.py:68)
EnsLock(p) ==
    /\ pc[p] = "ens_lock"
    /\ LockFree(client_lock)
    /\ client_lock' = p
    /\ Goto(p, "ens_check2")
    /\ UNCHANGED <<now, py311, quota, phase, file, ingested,
                   client, client_started, TG_LOOP, loop_run_lock, loop_runner, nreq>>
    /\ UNCHANGED <<req, data, pnow, new_logs, fut, resp, hist, overlap, message>>

\* mutant: the flag is not tested again under the lock
StartedUnderLockUntested(flag) == FALSE

\* the second test, under the lock (src/main.py:69)
StartedUnderLock(flag) == flag

\* `if _client_started: return` under the lock (src/main.py:69-70)
EnsCheck2(p) ==
    /\ pc[p] = "ens_check2"
    /\ IF StartedUnderLock(client_started)
       THEN /\ client_lock' = NoLock
            /\ Goto(p, EnsureReturn(p))
       ELSE /\ Goto(p, "ens_start")
            /\ UNCHANGED client_lock
    /\ UNCHANGED <<now, py311, quota, phase, file, ingested,
                   client, client_started, TG_LOOP, loop_run_lock, loop_runner, nreq>>
    /\ UNCHANGED <<req, data, pnow, new_logs, fut, resp, hist, overlap, message>>

\* telegram_client.start() is called (src/main.py:71): a client that is
\* already connected, or connecting, refuses with ConnectionError
EnsStart(p) ==
    /\ pc[p] = "ens_start"
    /\ IF client = "stopped"
       THEN /\ client' = "starting"
            /\ Goto(p, "ens_starting")
            /\ UNCHANGED <<client_lock, phase, resp>>
       ELSE /\ EnsureFails(p, "ConnectionError")
            /\ UNCHANGED client
    /\ UNCHANGED <<now, py311, quota, file, ingested, client_started, TG_LOOP,
                   loop_run_lock, loop_runner, nreq>>
    /\ UNCHANGED <<req, data, pnow, new_logs, fut, hist, overlap, message>>

\* mutant: the flag is set without the loop handle being stored
StartThenFlag == "ens_setflag"

\* the statement after telegram_client.start(): `_TG_LOOP =
\* telegram_client.loop` (src/main.py:71-72)
AfterStart == "ens_setloop"

\* telegram_client.start() returns, or raises (authorization, network)
EnsStarting(p) ==
    /\ pc[p] = "ens_starting"
    /\ \/ /\ client' = "started"
          /\ Goto(p, AfterStart)
          /\ UNCHANGED <<client_lock, phase, resp>>
       \/ /\ client' = "stopped"
          /\ EnsureFails(p, "StartError")
    /\ UNCHANGED <<now, py311, quota, file, ingested, client_started, TG_LOOP,
                   loop_run_lock, loop_runner, nreq>>
    /\ UNCHANGED <<req, data, pnow, new_logs, fut, hist, overlap, message>>

\* `_TG_LOOP = telegram_client.loop` (src/main.py:72)
EnsSetLoop(p) ==
    /\ pc[p] = "ens_setloop"
    /\ TG_LOOP' = "loop"
    /\ Goto(p, "ens_setflag")
    /\ UNCHANGED <<now, py311, quota, phase, file, ingested, client, client_started,
                   client_lock, loop_run_lock, loop_runner, nreq>>
    /\ UNCHANGED <<req, data, pnow, new_logs, fut, resp, hist, overlap, message>>

\* `_client_started = True` and the end of the `with` block
\* (src/main.py:73)
EnsSetFlag(p) ==
    /\ pc[p] = "ens_setflag"
    /\ client_started' = TRUE
    /\ client_lock' = NoLock
    /\ Goto(p, EnsureReturn(p))
    /\ UNCHANGED <<now, py311, quota, phase, file, ingested, client, TG_LOOP,
                   loop_run_lock, loop_runner, nreq>>
    /\ UNCHANGED <<req, data, pnow, new_logs, fut, resp, hist, overlap, message>>

\* main: app.run (src/main.py:291-292) starts serving requests
AppRun ==
    /\ pc[MainThread] = "app_run"
    /\ phase' = "serving"
    /\ Goto(MainThread, "serving")
    /\ UNCHANGED <<now, py311, quota, file, ingested, client, client_started, TG_LOOP,
                   client_lock, loop_run_lock, loop_runner, nreq>>
    /\ UNCHANGED <<req, data, pnow, new_logs, fut, resp, hist, overlap, message>>

\* the assertion and _build_curated_message (src/main.py:188-190): both are
\* outside the try block; data.items() raises AttributeError when the body
\* was no object
SendPrepare(t) ==
    /\ pc[t] = "assert"
    /\ IF TG_LOOP = "null"
       THEN /\ Respond(t, 500, "AssertionError", <<>>)
            /\ UNCHANGED message
       ELSE IF data[t].kind # "object"
       THEN /\ Respond(t, 500, "AttributeError", <<>>)
            /\ UNCHANGED message
       ELSE /\ Goto(t, "send_check")
            /\ message' = [message EXCEPT ![t] = Message(Items(data[t]), py311)]
            /\ UNCHANGED resp
    /\ UNCHANGED <<shared, req, data, pnow, new_logs, fut, hist, overlap>>

\* `if _TG_LOOP.is_running():` (src/main.py:196-199): on a running loop the
\* coroutine is scheduled with run_coroutine_threadsafe and the thread
\* waits for its result; otherwise the thread goes for _loop_run_lock
SendCheck(t) ==
    /\ pc[t] = "send_check"
    /\ IF loop_runner # NoLock
       THEN /\ fut' = [fut EXCEPT ![t] = "pending"]
            /\ Goto(t, "wait_result")
       ELSE /\ Goto(t, "run_lock")
            /\ UNCHANGED fut
    /\ Record(t, "send")
    /\ UNCHANGED <<shared, req, data, pnow, new_logs, resp, overlap, message>>

\* `with _loop_run_lock:` and the call of run_until_complete
\* (src/main.py:199-200)
RunLock(t) ==
    /\ pc[t] = "run_lock"
    /\ loop_run_lock = NoLock
    /\ loop_run_lock' = t
    /\ loop_runner' = t
    /\ Goto(t, "running")
    /\ UNCHANGED <<now, py311, quota, phase, file, ingested,
                   client, client_started, TG_LOOP, client_lock, nreq>>
    /\ UNCHANGED <<req, data, pnow, new_logs, fut, resp, hist, overlap, message>>

\* what the handler returns once send_telegram_message is back
\* (src/main.py:218-219)
IngestStatus(outcome) == 200

\* run_until_complete returns or raises (src/main.py:200-202): the loop
\* stops, an exception is printed, the handler returns
RunLoop(t) ==
    /\ pc[t] = "running"
    /\ \E outcome \in {"ok", "failed"} :
          /\ fut' = [fut EXCEPT ![t] = outcome]
          /\ Record(t, outcome)
          /\ Respond(t, IngestStatus(outcome), "", <<>>)
    /\ loop_run_lock' = NoLock
    /\ loop_runner' = NoLock
    /\ UNCHANGED <<now, py311, quota, phase, file, ingested,
                   client, client_started, TG_LOOP, client_lock, nreq>>
    /\ UNCHANGED <<req, data, pnow, new_logs, overlap, message>>

\* the running loop completes a coroutine another thread has scheduled
LoopServes(u) ==
    /\ loop_runner # NoLock
    /\ fut[u] = "pending"
    /\ \E outcome \in {"ok", "failed"} : fut' = [fut EXCEPT ![u] = outcome]
    /\ UNCHANGED <<shared, pc, req, data, pnow, new_logs, resp, hist, overlap, message>>

\* `.result()` returns or raises (src/main.py:197, 201-202)
WaitResult(t) ==
    /\ pc[t] = "wait_result"
    /\ fut[t] \in {"ok", "failed"}
    /\ Record(t, fut[t])
    /\ Respond(t, IngestStatus(fut[t]), "", <<>>)
    /\ UNCHANGED <<shared, req, data, pnow, new_logs, fut, overlap, message>>

\* the interpreter exits with no request in progress; the atexit hook
\* _stop_client (src/main.py:76-85) stops a started client
Shutdown ==
    /\ phase = "serving"
    /\ \A t \in Threads : Free(t)
    /\ phase' = "exited"
    /\ client' = IF client_started THEN "stopped" ELSE client
    /\ UNCHANGED <<now, py311, quota, file, ingested, client_started, TG_LOOP,
                   client_lock, loop_run_lock, loop_runner, nreq, locals>>

\* ------------------------------------------------------------ specification
\* the steps of the request threads and of main, for ingest bodies drawn
\* from B
StepsOver(B) ==
    \/ \E t \in Threads, n \in WEBHOOKS, b \in B : PostRequest(t, n, b)
    \/ \E t \in Threads, n \in WEBHOOKS, tok \in Tokens : GetRequest(t, n, tok)
    \/ \E t \in Threads, n \in WEBHOOKS, tok \in Tokens : ClearRequest(t, n, tok)
    \/ \E t \in Threads : Purge(t)
    \/ \E t \in Threads : PurgeWrite(t)
    \/ \E t \in Threads : PostAppend(t)
    \/ \E t \in Threads : GetRead(t)
    \/ \E p \in Procs : EnsCheck(p)
    \/ \E p \in Procs : EnsLock(p)
    \/ \E p \in Procs : EnsCheck2(p)
    \/ \E p \in Procs : EnsStart(p)
    \/ \E p \in Procs : EnsStarting(p)
    \/ \E p \in Procs : EnsSetLoop(p)
    \/ \E p \in Procs : EnsSetFlag(p)
    \/ AppRun
    \/ \E t \in Threads : SendPrepare(t)
    \/ \E t \in Threads : SendCheck(t)
    \/ \E t \in Threads : RunLock(t)
    \/ \E t \in Threads : RunLoop(t)
    \/ Shutdown

\* the bodies of the concurrent specification
RaceBodies ==
    { Body("object", "p1", TsAbsent), Body("object", "p1", Ts("iso_naive", OldTime, 0)),
      Body("invalid", "none", TsAbsent) }

RaceSteps ==
    \/ StepsOver(RaceBodies)
    \/ \E t \in Threads : LoopServes(t)
    \/ \E t \in Threads : WaitResult(t)

Next == RaceSteps

\* the threaded server: requests are served concurrently
Spec == Init /\ [][Next]_vars


\* no request is in progress
Quiet == \A t \in Threads : Free(t)

\* the requests are handed to the threads in turn
InTurn == \A t \in Threads : req[t].no # 0 => t = 1 + ((req[t].no - 1) % Cardinality(Threads))

\* the requests are for one webhook name
OneName == \A t, u \in Threads : req[t].no # 0 /\ req[u].no # 0 => req[t].name = req[u].name

\* the bodies of the serial specification
SeqBodies ==
    { Body("object", "p1", TsAbsent), Body("object", "p1", TsText),
      Body("object", "p1", TsTruthy), Body("object", "p1", Ts("iso_naive", OldTime, 0)),
      Body("object", "p1", Ts("iso_naive", EdgeTime, 0)), Body("object", "p2", TsNull),
      Body("falsy", "none", TsAbsent), Body("object", "surrogate", TsAbsent),
      Body("invalid", "none", TsAbsent) }

InitSeq == Boot({TRUE}, {"boot"}, [WEBHOOKS -> {Absent, File(LegacyLines)}])

NextSeq ==
    /\ StepsOver(SeqBodies) \/ (Tick /\ Quiet)
    /\ nreq' # nreq => Quiet
    /\ InTurn' /\ OneName'

\* the module run directly, serving requests that do not overlap: a request
\* arrives only when no other is in progress, and the clock advances between
\* requests
SpecSeq == InitSeq /\ [][NextSeq]_vars


\* the timestamps of stored entries: those a client can send, another falsy
\* value, an aware timestamp whose instant is EdgeTime although its local
\* time is OldTime, and one six days before the clock's start
SixDaysTime == OldTime + 2 * DayUnits
StoredTs ==
    ClientTs \cup { TsZero, Ts("iso_tz", OldTime, -1), Ts("iso_naive", SixDaysTime, 0) }

StoredLines ==
    { JsonLine(Obj("p1", ts)) : ts \in StoredTs }
    \cup { GarbageLine, BlankLine, NonObjLine }

\* the log files of at most two lines
StoredFiles ==
    {Absent} \cup { File(ls) : ls \in UNION { [1..k -> StoredLines] : k \in 0..2 } }

InitStore ==
    /\ Boot(BOOLEAN, {"serving"}, [WEBHOOKS -> StoredFiles])
    /\ file["webhook2"] = Absent

NextStore ==
    \/ \E t \in Threads, n \in WEBHOOKS, tok \in Tokens : GetRequest(t, n, tok)
    \/ \E t \in Threads : Purge(t)
    \/ \E t \in Threads : PurgeWrite(t)
    \/ \E t \in Threads : GetRead(t)
    \/ Tick

\* list requests over the log files a working directory may hold
SpecStore == InitStore /\ [][NextStore]_vars


\* the timestamps handed to the formatter, in half hours since the epoch
\* (day 0, 00:00 UTC): midnight with the suffix Z, 18:30 without offset,
\* 05:30 at +05:30, 23:00 of the day before at -01:00, and midnight in the
\* two formats with unpadded fields
FormatTimes ==
    { Ts("iso_z", 0, 0), Ts("iso_naive", 37, 0), Ts("iso_tz", 11, 11),
      Ts("iso_tz", -2, -2), Ts("loose", 0, 0), Ts("loose_sp", 0, 0) }

FormatItems ==
    { Item("timestamp", v) :
        v \in { JTime(ts) : ts \in FormatTimes }
              \cup { JText("soon"), JText(""), JNull, JNumber(5), JNumber(0), JArray } }
    \cup { Item("action", v) :
             v \in { JText("buy"), JText(""), JNull, JNumber(0), JFalse, JEmptyArray, JObject } }
    \cup { Item("stop_loss", JNumber(5)), Item("stop_loss", JText("")),
           Item("webhook_url", JText("x")), Item("alert_name", JText("x")),
           Item("scan_name", JNull), Item("scan_url", JObject) }

\* the entries of at most MaxFields fields, each key once
FormatEntries ==
    { e \in UNION { [1..k -> FormatItems] : k \in 0..MaxFields } :
        \A i, j \in 1..Len(e) : i # j => e[i].key # e[j].key }

InitFormat == Boot(BOOLEAN, {"serving"}, {[n \in WEBHOOKS |-> Absent]})

\* send_telegram_message builds the message of an entry (src/main.py:190)
FormatEntry(t) ==
    /\ \A u \in Procs : message[u] = NoMessage
    /\ \E e \in FormatEntries : message' = [message EXCEPT ![t] = Message(e, py311)]
    /\ UNCHANGED <<shared, pc, req, data, pnow, new_logs, fut, resp, hist, overlap>>

NextFormat == \E t \in Threads : FormatEntry(t)

\* the formatter applied to the entries a client may send
SpecFormat == InitFormat /\ [][NextFormat]_vars


\* the bodies of the serial log specification: objects without timestamp or
\* with an ISO-8601 timestamp 8 days before the clock's start (without
\* offset, or with the suffix Z) or one clock unit later (with an offset)
LogBodies ==
    { Body("object", "p1", TsAbsent),
      Body("object", "p2", Ts("iso_naive", OldTime, 0)),
      Body("object", "p1", Ts("iso_tz", EdgeTime + 1, 1)),
      Body("object", "p2", Ts("iso_z", OldTime, 0)) }

InitLog == BootFor(BOOLEAN, {"boot", "serving"}, {[n \in WEBHOOKS |-> Absent]}, MaxLogReq)

\* the requests are served by the first request thread, are for the first
\* webhook name, and carry the token where one is needed
OneThread == \A t \in Threads : t # 1 => pc[t] = "idle"
FirstName == \A t \in Threads : req[t].name = "webhook1"
WithToken == \A t \in Threads : resp[t].status # 401

NextLog ==
    /\ StepsOver(LogBodies) \/ (Tick /\ Quiet)
    /\ nreq' # nreq => Quiet
    /\ OneThread' /\ FirstName' /\ WithToken'

\* a longer run of ingest, list and clear requests that do not overlap, on
\* one webhook whose log file does not exist at the start
SpecLog == InitLog /\ [][NextLog]_vars


\* ------------------------------------------------------------------ claims
\* the elements of a sequence
Range(q) == { q[i] : i \in 1..Len(q) }

\* a timestamp that denotes an instant: ISO-8601 with or without offset
\* (the suffix Z where fromisoformat accepts it)
Parseable(ts, v311) ==
    \/ ts.k \in {"iso_naive", "iso_tz", "loose"}
    \/ ts.k = "iso_z" /\ v311

\* a timestamp that is absent or denotes no instant
NoInstant(ts, v311) == ~Parseable(ts, v311)

\* the age in clock units, at time tm, of a parseable timestamp; a naive
\* value is UTC
Age(ts, tm) == tm - (IF ts.k = "iso_tz" THEN ts.local - ts.off ELSE ts.local)

\* within the retention window at time tm: less than 8 whole days old, or
\* without an instant (dated tm)
InWindow(ts, tm, v311) ==
    NoInstant(ts, v311) \/ Age(ts, tm) < (RETENTION_DAYS + 1) * DayUnits

\* thread t has served an ingest of a JSON object and u the next request,
\* a list of the same webhook that was not refused
PostThenGet(t, u) ==
    /\ pc[t] = "done" /\ req[t].op = "post" /\ req[t].body.kind = "object"
    /\ pc[u] = "done" /\ req[u].op = "get" /\ resp[u].status # 401
    /\ req[u].no = req[t].no + 1
    /\ req[u].name = req[t].name

\* the list returned to u holds the object X of t's ingest, with a
\* timestamp added only if X had none
ListsPosted(t, u) ==
    \E e \in Range(resp[u].body) :
        /\ e.kind = "object"
        /\ e.payload = req[t].body.payload
        /\ IF req[t].body.ts.k = "absent"
           THEN e.ts.k = "iso_tz"
           ELSE e.ts = req[t].body.ts

C2_DeliveryFailureNeverSurfaces ==
    \A t \in Threads :
        /\ pc[t] = "done" /\ req[t].op = "post" /\ req[t].body.kind = "object"
        /\ "append" \in Range(hist[t])
        => resp[t].status = 200

\* C3: a list or clear request whose token is missing or wrong is answered
\* 401 and leaves every log file as it was: nothing is purged or truncated,
\* and an absent file is not created.
C3_UnauthorizedLeavesFile ==
    [][\A t \in Threads, n \in WEBHOOKS, tok \in Tokens :
          tok # DOWNLOAD_SECRET /\ (GetRequest(t, n, tok) \/ ClearRequest(t, n, tok))
          => resp'[t].status = 401 /\ pc'[t] = "done" /\ file' = file]_vars

\* a clear request on a webhook whose file holds lines, or does not exist,
\* has been refused
C3_Witness ==
    \E t \in Threads :
        /\ pc[t] = "done" /\ req[t].op = "clear" /\ resp[t].status = 401
        /\ req[t].no = nreq
        /\ ~file[req[t].name].exists \/ file[req[t].name].lines # <<>>

ObjectsOrGarbage(f) == \A l \in Range(f.lines) : l.kind \in {"json", "garbage", "blank"}

\* C5 as stated: for every stored entry whose timestamp is absent or cannot
\* be parsed as ISO-8601 (null, empty, other text, or a non-string value),
\* purge completes without error and keeps the entry, whenever it runs.
C5_UnparseableTimestampKept ==
    [][\A t \in Threads :
          LET f == file[req[t].name] IN
          pc[t] = "purge" /\ pc'[t] # "purge" /\ f.exists /\ ObjectsOrGarbage(f) =>
              /\ pc'[t] = "purge_write"
              /\ \A l \in Range(f.lines) :
                    l.kind = "json" /\ NoInstant(l.ts, py311) =>
                        Obj(l.payload, l.ts) \in Range(new_logs'[t])]_vars

\* the entries of a file that are within the window at time tm, in file
\* order
InWindowLine(l, tm, v311) == l.kind = "json" /\ InWindow(l.ts, tm, v311)
RECURSIVE EntriesInWindow(_, _, _)
EntriesInWindow(ls, tm, v311) ==
    IF ls = <<>> THEN <<>>
    ELSE (IF InWindowLine(Head(ls), tm, v311)
          THEN <<Obj(Head(ls).payload, Head(ls).ts)>> ELSE <<>>)
         \o EntriesInWindow(Tail(ls), tm, v311)

\* C6 as stated: on a log file whose lines are JSON objects or text that is
\* not JSON, an authorized list request completes its purge without error,
\* keeping exactly the valid entries within the window in file order; the
\* rewritten file holds no unparseable line; and the request returns 200
\* with the entries of the file in order.
C6_MalformedLinesTolerated ==
    [][\A t \in Threads :
          LET f == file[req[t].name] IN
          req[t].op = "get" =>
              /\ pc[t] = "purge" /\ pc'[t] # "purge" /\ f.exists /\ ObjectsOrGarbage(f) =>
                    /\ pc'[t] = "purge_write"
                    /\ new_logs'[t] = EntriesInWindow(f.lines, now, py311)
              /\ pc[t] = "purge_write" /\ pc'[t] # "purge_write" =>
                    \A l \in Range(file'[req[t].name].lines) : l.kind = "json"
              /\ pc[t] = "get_read" /\ pc'[t] # "get_read" /\ ObjectsOrGarbage(f) =>
                    /\ resp'[t].status = 200
                    /\ MapDumps(resp'[t].body) = SelectSeq(f.lines, LAMBDA l : l.kind = "json")]_vars

\* C7: under any interleaving of first callers of _ensure_client_started,
\* start() is never called while another call is in progress or after one
\* has succeeded: whoever is about to call it finds the client stopped, and
\* at most one thread is at or inside the call.
C7_SingleStart ==
    /\ \A p \in Procs : pc[p] = "ens_start" => client = "stopped" /\ ~client_started
    /\ Cardinality({p \in Procs : pc[p] \in {"ens_start", "ens_starting"}}) <= 1

\* a second first caller holds the lock after the first one has started the
\* client
C7_Witness ==
    \E p \in Threads :
        pc[p] = "ens_check2" /\ client = "started" /\ client_started

\* every entry a list request returned is within the window at the time its
\* purge ran
ListedInWindow(t) ==
    \A e \in Range(resp[t].body) : InWindow(e.ts, pnow[t], py311)

GetServed(t) == pc[t] = "done" /\ req[t].op = "get" /\ resp[t].status = 200

\* C8 as stated: every entry returned by an authorized list request is
\* within the 7-day window at the time of the request, after any sequence and
\* any interleaving of ingest, list and clear requests.
C8_Original == \A t \in Threads : GetServed(t) => ListedInWindow(t)

\* C8 as amended: every entry returned by an authorized list request that
\* overlaps no other request is within the 7-day window at the time of the
\* request, after any sequence of ingest, list and clear requests.
C8_ListedWithinWindowWhenAlone ==
    \A t \in Threads : GetServed(t) /\ ~overlap[t] => ListedInWindow(t)

\* a list request that overlapped no other has returned an entry, after an
\* earlier request
C8_Witness ==
    \E t \in Threads :
        GetServed(t) /\ ~overlap[t] /\ req[t].no > 1 /\ resp[t].body # <<>>

\* q is a prefix of r
IsPrefix(q, r) == Len(q) <= Len(r) /\ \A i \in 1..Len(q) : q[i] = r[i]

\* C9: within an ingest request the steps come in the order purge, append,
\* delivery attempt, response: a delivery is attempted only after the entry
\* has been appended, and 200 is answered only after the attempt has
\* completed or failed.
C9_IngestOrder ==
    \A t \in Threads :
        req[t].op = "post" =>
            /\ \/ IsPrefix(hist[t], <<"purge", "append", "send", "ok">>)
               \/ IsPrefix(hist[t], <<"purge", "append", "send", "failed">>)
            /\ pc[t] \in {"run_lock", "running", "wait_result"} \/ fut[t] # "none"
                  => Len(hist[t]) >= 3
            /\ resp[t].status = 200 => Len(hist[t]) = 4

\* an ingest has answered 200 after its delivery failed
C9_Witness ==
    \E t \in Threads :
        /\ req[t].op = "post" /\ resp[t].status = 200
        /\ hist[t] = <<"purge", "append", "send", "failed">>

\* t has served an authorized clear request
ClearServed(t) == pc[t] = "done" /\ req[t].op = "clear" /\ resp[t].status # 401

\* C10: an authorized clear, whatever the log file was (absent, empty or
\* holding entries), leaves it present and empty and answers 200, and a
\* second clear right after it gives the same file and the same answer.
C10_ClearIdempotent ==
    \A t \in Threads :
        ClearServed(t) =>
            /\ resp[t].status = 200
            /\ req[t].no = nreq => file[req[t].name] = File(<<>>)

\* two clear requests in a row have been served
C10_Witness ==
    \E t, u \in Threads :
        /\ ClearServed(t) /\ ClearServed(u)
        /\ req[t].name = req[u].name
        /\ req[u].no = req[t].no + 1 /\ req[u].no = nreq
        /\ resp[t].status = 200 /\ resp[u].status = 200
        /\ file[req[u].name] = File(<<>>)

\* the body of an ingest request that is not JSON text
InvalidBody == Body("invalid", "none", TsAbsent)

\* C11: an ingest request whose body is not valid JSON is rejected with a
\* non-2xx response (400) before anything else happens: the handler is over
\* in that step, no log file is changed (no purge, no append), and nothing of
\* the chat client is touched (no start, no delivery attempt).
C11_InvalidJsonRejected ==
    [][\A t \in Threads, n \in WEBHOOKS :
          PostRequest(t, n, InvalidBody) =>
              /\ pc'[t] = "done"
              /\ resp'[t].status = 400 /\ resp'[t].status \notin 200..299
              /\ file' = file
              /\ hist'[t] = <<>> /\ fut'[t] = "none"
              /\ <<client, client_started, TG_LOOP, client_lock,
                    loop_run_lock, loop_runner>>' =
                 <<client, client_started, TG_LOOP, client_lock,
                   loop_run_lock, loop_runner>>]_vars

\* an ingest of text that is not JSON has been rejected on a webhook whose
\* file holds a line a purge would have dropped
C11_Witness ==
    \E t \in Threads :
        /\ pc[t] = "done" /\ req[t].op = "post" /\ req[t].body = InvalidBody
        /\ resp[t].status = 400
        /\ file[req[t].name] = File(LegacyLines)

\* a timestamp string that denotes an instant: ISO-8601 with or without
\* offset or with the suffix Z, or year-month-day and time with unpadded
\* fields
Dated(ts) == ts.k \in {"iso_naive", "iso_tz", "iso_z", "loose", "loose_sp"}

\* the UTC instant of a dated timestamp, in half hours: a value without
\* offset is UTC
UtcInstant(ts) == IF ts.k = "iso_tz" THEN ts.local - ts.off ELSE ts.local

\* d shows the date and time of day that are 5:30 hours ahead of the UTC
\* instant x
ShowsIst(d, x) ==
    /\ d.as = "clock" /\ d.tod \in 0..(HalfHoursPerDay - 1)
    /\ d.day * HalfHoursPerDay + d.tod = x + 11

\* d is the rendered value the formatter is to give for the field: the IST
\* time of a dated timestamp string; the value as it is for any other
\* timestamp; JSON text for an array or object; the string form otherwise
RenderedAs(d, item) ==
    IF item.key = "timestamp"
    THEN IF item.value.t = "string" /\ Dated(item.value.ts)
         THEN ShowsIst(d, UtcInstant(item.value.ts))
         ELSE d = PyStr(item.value)
    ELSE IF item.value.t \in {"object", "array"}
    THEN d = Shown(item.value.j)
    ELSE d = PyStr(item.value)

\* the field has no line: its key is one of the four metadata keys, its
\* value is null, or its rendered value is empty
Omitted(item) ==
    \/ item.key \in {"webhook_url", "alert_name", "scan_name", "scan_url"}
    \/ item.value.t = "null"
    \/ item.value.t = "string" /\ item.value.ts.k = "empty"

\* the message has the two header lines and then one line for each field
\* that is not omitted, in the order of the fields
LinesFollowFields(m) ==
    LET shown == SelectSeq(m.of, LAMBDA item : ~Omitted(item)) IN
    /\ Len(m.lines) = 2 + Len(shown)
    /\ m.lines[1] = HeaderLine("PriceAction Alert (Buy or Sell detected)")
    /\ m.lines[2] = HeaderLine("")
    /\ \A i \in 1..Len(shown) :
          /\ m.lines[2 + i].sep = ": "
          /\ m.lines[2 + i].label =
                (IF shown[i].key = "timestamp" THEN "Timestamp (IST)"
                 ELSE TitleLabel(shown[i].key))
          /\ RenderedAs(m.lines[2 + i].value, shown[i])

\* C12 as stated: the formatted message is the two-line header followed by
\* exactly one line per field in key order, without the four excluded keys,
\* the null values and the values rendered empty; the timestamp is labelled
\* "Timestamp (IST)" and rendered at UTC+5:30 (2024-01-01T00:00:00Z as
\* 05:30:00 01/01/2024), or as it is when it cannot be parsed.
C12_FormattedMessage ==
    \A t \in Threads : message[t] # NoMessage => LinesFollowFields(message[t])


\* the entries of es that are within the retention window at time tm, in
\* the order of es
Retained(es, tm, v311) == SelectSeq(es, LAMBDA e : InWindow(e.ts, tm, v311))

NoFileLock ==
    \A t \in Threads :
        /\ pc[t] = "purge" => ENABLED Purge(t)
        /\ pc[t] = "purge_write" => ENABLED PurgeWrite(t)
        /\ pc[t] = "append" => ENABLED PostAppend(t)

\* the entry of u's ingest was acknowledged with 200 and is within the
\* window, its webhook has not been cleared since, and the log file does not
\* hold it
LostEntry(u) ==
    /\ pc[u] = "done" /\ req[u].op = "post" /\ resp[u].status = 200
    /\ InWindow(data[u].ts, now, py311)
    /\ data[u] \in Range(ingested[req[u].name])
    /\ file[req[u].name].exists
    /\ Dumps(data[u]) \notin Range(file[req[u].name].lines)

\* C14: the log file is accessed with no in-process lock, so purge and
\* append race: no step on the file ever waits for another thread, and the
\* rewrite of a purge makes the file exactly the entries that purge had read
\* and kept, so whatever another request has appended since that read is
\* overwritten.
C14_PurgeRewriteRacesAppend ==
    /\ []NoFileLock
    /\ [][\A t \in Threads :
             pc[t] = "purge_write" /\ pc'[t] # "purge_write" =>
                 file'[req[t].name] = File(MapDumps(new_logs[t]))]_vars

\* the interleaving of the claim has happened: t's purge read the file, u
\* appended its entry and returned 200, and t's rewrite then wrote the file
\* without that entry
C14_Witness ==
    \E t, u \in Threads :
        /\ t # u /\ req[t].name = req[u].name /\ req[t].no < req[u].no
        /\ LostEntry(u)
        /\ "purge" \in Range(hist[t]) /\ data[u] \notin Range(new_logs[t])
        /\ file[req[t].name].lines = MapDumps(new_logs[t])


\* the step is one of thread t's request
Acts(t) == <<pc[t], req[t], resp[t], hist[t]>>' # <<pc[t], req[t], resp[t], hist[t]>>

\* C15: each webhook name has its own log file and its routes are bound to
\* that file only: a step of an ingest, list or clear request on /{A}...
\* leaves the log file of every other name B as it was, a purge keeps what
\* it read in A's file, and a list returns what A's file holds.
C15_RoutesBoundToOwnFile ==
    [][\A t \in Threads :
          LET A == req'[t].name IN
          /\ Acts(t) => \A B \in WEBHOOKS \ {A} : file'[B] = file[B]
          /\ Acts(t) /\ pc[t] = "purge" /\ pc'[t] = "purge_write" =>
                new_logs'[t] = ScanKept(file[A].lines, now, py311)
          /\ Acts(t) /\ pc[t] = "get_read" =>
                resp'[t].body = (IF file[A].exists THEN ReadLogs(file[A].lines) ELSE <<>>)]_vars

\* requests on both names have been served: a clear has emptied the file of
\* the first name and the ingest that followed has added its entry to the
\* file of the second, whose other lines are as they were
C15_Witness ==
    \E t, u \in Threads :
        /\ pc[t] = "done" /\ req[t].op = "clear" /\ resp[t].status = 200
        /\ req[t].name = "webhook1" /\ file["webhook1"] = File(<<>>)
        /\ pc[u] = "done" /\ req[u].op = "post" /\ resp[u].status = 200
        /\ req[u].name = "webhook2" /\ req[u].no > req[t].no
        /\ file["webhook2"] = File(<<JsonLine(Obj("p2", TsAbsent)), Dumps(data[u])>>)


\* the positions of send_telegram_message after _ensure_client_started has
\* returned, up to the end of the send
Sending == {"assert", "send_check", "run_lock", "running", "wait_result"}

\* C16: under any interleaving of concurrent ingest requests, whoever has
\* returned normally from _ensure_client_started, through the unlocked test
\* or the locked path, finds the client started and _TG_LOOP set; the flag is
\* never set while _TG_LOOP is null, and the assertion of
\* send_telegram_message never fails.
C16_LoopSetBeforeSend ==
    /\ client_started => TG_LOOP = "loop"
    /\ \A p \in Procs :
          pc[p] \in Sending \cup {"app_run"} =>
              TG_LOOP = "loop" /\ client_started /\ client = "started"
    /\ \A t \in Threads : resp[t].exc # "AssertionError"

\* the module was imported, one request thread has started the client and
\* both ingest requests are back from _ensure_client_started, one of them
\* sending already
C16_Witness ==
    /\ pc[MainThread] = "imported"
    /\ \E t, u \in Threads :
          /\ t # u /\ req[t].op = "post" /\ req[u].op = "post"
          /\ pc[t] = "assert" /\ pc[u] \in Sending \ {"assert"}

====
